---------------------------- MODULE Spec2Model ----------------------------
(***************************************************************************)
(* Model of sutter_Lambda_10_3_JLD.py: class Controller, the host-side     *)
(* driver of a Sutter Lambda 10-3 filter wheel / shutter controller.       *)
(*                                                                         *)
(* Every method of Controller is an operator from a working record (the    *)
(* object's mutable fields, the serial port's receive buffer and the       *)
(* bookkeeping of the call in progress) to the record after the method     *)
(* returned or raised; field err names the exception and the source line   *)
(* that raised it (NoErr: normal return).  The actions apply one whole     *)
(* method call and commit the record to the state variables.               *)
(*                                                                         *)
(* Bytes are integers 0..255, byte strings are sequences of bytes, Python  *)
(* str values are sequences of one-character strings.  Python's 0-based    *)
(* list index i is index i+1 of the TLA+ sequence.                         *)
(***************************************************************************)
EXTENDS Integers, Sequences, FiniteSets, TLC

VARIABLES
    phase,                   \* "new" | "open" | "failed" | "closed"
    wheels,                  \* self.wheels
    shutters,                \* self.shutters
    _pending_cmd,            \* self._pending_cmd
    wheel_target_positions,  \* self.wheel_target_positions
    port_rx,                 \* self.port: bytes received and not yet read
    device,                  \* how the device answers a command: "echo" or a fault
    unacked,                 \* history: commands written, echo not yet read
    last                     \* the caller: the call that has just returned or
                             \* raised, with its I/O; NoCall between calls

\* self.name and self.verbose only feed print(); verbose is an argument of
\* __init__, where it decides whether an empty configuration raises.

vars == <<phase, wheels, shutters, _pending_cmd, wheel_target_positions,
          port_rx, device, unacked, last>>

---------------------------------------------------------------------------
(* Bounds of the model *)

\* __init__ and close() are run against devices that fault after 0..MaxOk
\* correctly echoed commands (or not at all)
MaxOk == 6
\* calls are issued only while the receive buffer holds at most this many bytes
MaxRx == 4

---------------------------------------------------------------------------
(* Values *)

\* Python's None for _pending_cmd (no command is the empty byte string)
None == <<>>
NoErr == "ok"
\* b'\r'
CR == 13
\* b'\n', the terminator readline() stops at
LF == 10
\* b'\xFD'
QUERY == 253

Min(a, b) == IF a < b THEN a ELSE b
Range(f) == {f[i] : i \in DOMAIN f}
\* mutant of InList: the presence assertion is left out
InList_unchecked(x, l) == TRUE

\* Python's  x in list
InList(x, l) == \E i \in DOMAIN l : l[i] = x
\* Python's  seq[a:b]  and  seq[a:]
Slice(seq, a, b) == SubSeq(seq, a + 1, Min(b, Len(seq)))
SliceFrom(seq, a) == SubSeq(seq, a + 1, Len(seq))

Raise(s, e) == [s EXCEPT !.err = e]

---------------------------------------------------------------------------
(* ASCII, for configuration[5:].decode('ASCII') *)

AsciiTable ==
    << <<"W", 87>>, <<"A", 65>>, <<"B", 66>>, <<"C", 67>>, <<"S", 83>>,
       <<"-", 45>>, <<"2", 50>>, <<"5", 53>>, <<"3", 51>>, <<"N", 78>>,
       <<"I", 73>>, <<"Q", 81>>, <<"V", 86>>, <<"\n", 10>> >>

Ord(c) == AsciiTable[CHOOSE i \in DOMAIN AsciiTable : AsciiTable[i][1] = c][2]
Chr(b) ==
    IF \E i \in DOMAIN AsciiTable : AsciiTable[i][2] = b
    THEN AsciiTable[CHOOSE i \in DOMAIN AsciiTable : AsciiTable[i][2] = b][1]
    ELSE "?"
\* str.encode('ASCII'): how the device spells a field on the wire
Encode(chars) == [i \in DOMAIN chars |-> Ord(chars[i])]
\* bytes.decode('ASCII') raises UnicodeDecodeError on a byte above 127
decode_raises(bytes) == \E i \in DOMAIN bytes : bytes[i] >= 128
decode(bytes) == [i \in DOMAIN bytes |-> Chr(bytes[i])]

---------------------------------------------------------------------------
(* The serial port and the device behind it *)

\* What the device puts on the line after it received cmd.
DeviceResponse(cmd, mode) ==
    CASE mode = "echo"   -> cmd \o <<CR>>
      [] mode = "garble" -> <<(cmd[1] + 1) % 256>> \o Tail(cmd) \o <<CR>>
      [] mode = "silent" -> <<>>
      [] mode = "short"  -> cmd
      [] mode = "extra"  -> cmd \o <<CR, CR>>

FaultModes == {"garble", "silent", "short", "extra"}
\* A healthy device echoes the next ok commands and then turns to mode for
\* good; a device that has turned stays as it is.
DevicePlans == [ok : {0}, mode : {"echo"}] \cup [ok : 0..MaxOk, mode : FaultModes]
NoPlan == [ok |-> 0, mode |-> "echo"]

\* how the device answers the next command
device_mode(s) ==
    IF s.dev # "echo" THEN s.dev ELSE IF s.ok > 0 THEN "echo" ELSE s.mode

\* self.port.write(cmd), issued by method by for channel ch with argument arg
port_write(s, cmd, by, ch, arg) ==
    [s EXCEPT
       !.rx = @ \o DeviceResponse(cmd, device_mode(s)),
       !.dev = device_mode(s),
       !.ok = IF @ > 0 THEN @ - 1 ELSE 0,
       !.unacked = Append(@, cmd),
       !.trace = Append(@, [op |-> "write", bytes |-> cmd, n |-> Len(cmd),
                            pend |-> s.pending, inflight |-> Len(s.unacked),
                            left |-> Len(s.rx) + Len(DeviceResponse(cmd, device_mode(s))),
                            by |-> by, ch |-> ch, arg |-> arg])]

\* the bytes self.port.read(n) returns: n bytes, fewer when the read times out
port_read_bytes(s, n) == SubSeq(s.rx, 1, Min(n, Len(s.rx)))

\* the port after self.port.read(n)
port_read(s, n) ==
    LET got == port_read_bytes(s, n)
    IN [s EXCEPT
          !.rx = SubSeq(@, Len(got) + 1, Len(@)),
          !.unacked = IF @ # <<>> /\ got = Head(@) \o <<CR>> THEN Tail(@) ELSE @,
          !.trace = Append(@, [op |-> "read", bytes |-> got, n |-> n,
                               pend |-> s.pending, inflight |-> Len(s.unacked),
                               left |-> Len(s.rx) - Len(got),
                               by |-> "_finish_moving", ch |-> 0, arg |-> 0])]

\* self.port.in_waiting
in_waiting(s) == Len(s.rx)

---------------------------------------------------------------------------
(* Controller.n2c, Controller.c2n *)

names_to_channels == [n \in {"A", "B"} |-> IF n = "A" THEN 0 ELSE 1]
channels_to_names == [c \in {0, 1} |-> IF c = 0 THEN "A" ELSE "B"]

\* A Python value that may be a str or an int: 'A' is PyStr("A"), 0 is PyInt(0).
\* Field s holds a str's value and field i an int's.
PyStr(v) == [kind |-> "str", s |-> v, i |-> 0]
PyInt(v) == [kind |-> "int", s |-> "", i |-> v]

n2c_raises(name_or_channel) ==
    ~ \/ (name_or_channel.kind = "int" /\ name_or_channel.i \in Range(names_to_channels))
      \/ (name_or_channel.kind = "str" /\ name_or_channel.s \in DOMAIN names_to_channels)

n2c(name_or_channel) ==
    IF name_or_channel.kind = "int" /\ name_or_channel.i \in Range(names_to_channels)
    THEN name_or_channel.i
    ELSE names_to_channels[name_or_channel.s]

c2n_raises(name_or_channel) ==
    ~ \/ (name_or_channel.kind = "str" /\ name_or_channel.s \in Range(channels_to_names))
      \/ (name_or_channel.kind = "int" /\ name_or_channel.i \in DOMAIN channels_to_names)

c2n(name_or_channel) ==
    IF name_or_channel.kind = "str" /\ name_or_channel.s \in Range(channels_to_names)
    THEN name_or_channel.s
    ELSE channels_to_names[name_or_channel.i]

---------------------------------------------------------------------------
(* Controller._finish_moving *)

\* mutant of _finish_moving: the response is compared without its terminator
_finish_moving_no_cr(s) ==
    IF s.pending = None THEN s
    ELSE LET response == port_read_bytes(s, Len(s.pending) + 1)
             s1 == port_read(s, Len(s.pending) + 1)
         IN IF SubSeq(response, 1, Min(Len(s.pending), Len(response))) # s1.pending
            THEN Raise(s1, "IOError:156")
            ELSE LET s2 == [s1 EXCEPT !.pending = None]
                 IN IF in_waiting(s2) # 0
                    THEN Raise(s2, "AssertionError:158")
                    ELSE s2

\* mutant of _finish_moving: no early return when nothing is pending
_finish_moving_reads_anyway(s) ==
    LET response == port_read_bytes(s, Len(s.pending) + 1)
        s1 == port_read(s, Len(s.pending) + 1)
    IN IF response # s1.pending \o <<CR>>
       THEN Raise(s1, "IOError:156")
       ELSE LET s2 == [s1 EXCEPT !.pending = None]
            IN IF in_waiting(s2) # 0
               THEN Raise(s2, "AssertionError:158")
               ELSE s2

\* lines 149-158
_finish_moving(s) ==
    IF s.pending = None THEN s
    ELSE LET response == port_read_bytes(s, Len(s.pending) + 1)
             s1 == port_read(s, Len(s.pending) + 1)
         IN IF response # s1.pending \o <<CR>>
            THEN Raise(s1, "IOError:156")
            ELSE LET s2 == [s1 EXCEPT !.pending = None]
                 IN IF in_waiting(s2) # 0
                    THEN Raise(s2, "AssertionError:158")
                    ELSE s2

\* mutant of finish_pending: the pending command is not completed first
finish_pending_skipped(s) == s

\* mutant of finish_pending: a failure of the completion is swallowed
finish_pending_swallowed(s) ==
    IF s.pending # None THEN [_finish_moving(s) EXCEPT !.err = NoErr] ELSE s

\* lines 90-91, 115-116, 137-138:  if self._pending_cmd is not None: self._finish_moving()
finish_pending(s) == IF s.pending # None THEN _finish_moving(s) ELSE s

---------------------------------------------------------------------------
(* Controller.move *)

\* mutant of move_cmd: the speed is shifted by three bits
move_cmd_speed_shift3(wheel, speed, position) == <<wheel * 128 + speed * 8 + position>>

\* mutant of move_cmd: the position is sent one-based
move_cmd_one_based(wheel, speed, position) == <<wheel * 128 + speed * 16 + position + 1>>

\* bytes([(wheel << 7) + (speed << 4) + position])
move_cmd(wheel, speed, position) == <<wheel * 128 + speed * 16 + position>>

\* mutant of move_issue: block is ignored, the call never waits for the echo
move_issue_never_blocks(s, wheel, speed, position, block) ==
    LET cmd == move_cmd(wheel, speed, position)
        s1 == port_write(s, cmd, "move", wheel, position)
        s2 == [s1 EXCEPT !.pending = cmd]
    IN IF wheel + 1 \notin DOMAIN s2.targets
       THEN Raise(s2, "IndexError:100")
       ELSE [s2 EXCEPT !.targets[wheel + 1] = position]

\* lines 97-103, after the arguments were checked
move_issue(s, wheel, speed, position, block) ==
    LET cmd == move_cmd(wheel, speed, position)
        s1 == port_write(s, cmd, "move", wheel, position)
        s2 == [s1 EXCEPT !.pending = cmd]
    IN IF wheel + 1 \notin DOMAIN s2.targets
       THEN Raise(s2, "IndexError:100")
       ELSE LET s3 == [s2 EXCEPT !.targets[wheel + 1] = position]
            IN IF block THEN _finish_moving(s3) ELSE s3

move(s, position, wheel, speed, block) ==
    IF n2c_raises(wheel) THEN Raise(s, "ValueError:168")
    ELSE IF ~InList(n2c(wheel), s.wheels) THEN Raise(s, "AssertionError:89")
    ELSE LET s1 == finish_pending(s)
         IN IF s1.err # NoErr THEN s1
            ELSE IF position \notin 0..9 THEN Raise(s1, "AssertionError:92")
            ELSE IF speed \notin 0..7 THEN Raise(s1, "AssertionError:93")
            ELSE move_issue(s1, n2c(wheel), speed, position, block)

---------------------------------------------------------------------------
(* Controller.change_shutter, Controller.set_shutter_mode *)

\* state in ['closed', 'open', 0, 1]
state_recognized(state) ==
    \/ (state.kind = "str" /\ state.s \in {"closed", "open"})
    \/ (state.kind = "int" /\ state.i \in {0, 1})

state_is_open(state) ==
    (state.kind = "str" /\ state.s = "open") \/ (state.kind = "int" /\ state.i = 1)

\* mutant of shutter_cmd: the channel is shifted by three bits
shutter_cmd_shift3(shutter, open) ==
    <<128 + 32 + shutter * 8 + 8 + (IF open THEN 2 ELSE 4)>>

\* bytes([128 + 32 + (shutter << 4) + 8 + 2]) if open, ... + 4 if closed
shutter_cmd(shutter, open) ==
    <<128 + 32 + shutter * 16 + 8 + (IF open THEN 2 ELSE 4)>>

\* mutant of change_shutter: the state is recorded as a wheel target
change_shutter_records_target(s, state, shutter, block) ==
    IF n2c_raises(shutter) THEN Raise(s, "ValueError:168")
    ELSE IF ~InList(n2c(shutter), s.shutters) THEN Raise(s, "AssertionError:110")
    ELSE IF ~state_recognized(state) THEN Raise(s, "AssertionError:111")
    ELSE LET s1 == finish_pending(s)
         IN IF s1.err # NoErr THEN s1
            ELSE LET cmd == shutter_cmd(n2c(shutter), state_is_open(state))
                     s2 == port_write(s1, cmd, "change_shutter", n2c(shutter),
                                      IF state_is_open(state) THEN 1 ELSE 0)
                     s3 == [s2 EXCEPT !.pending = cmd,
                                      !.targets = [k \in DOMAIN @ |->
                                                     IF k = n2c(shutter) + 1
                                                     THEN (IF state_is_open(state) THEN 1 ELSE 0)
                                                     ELSE @[k]]]
                 IN IF block THEN _finish_moving(s3) ELSE s3

\* lines 105-125
change_shutter(s, state, shutter, block) ==
    IF n2c_raises(shutter) THEN Raise(s, "ValueError:168")
    ELSE IF ~InList(n2c(shutter), s.shutters) THEN Raise(s, "AssertionError:110")
    ELSE IF ~state_recognized(state) THEN Raise(s, "AssertionError:111")
    ELSE LET s1 == finish_pending(s)
         IN IF s1.err # NoErr THEN s1
            ELSE LET cmd == shutter_cmd(n2c(shutter), state_is_open(state))
                     s2 == port_write(s1, cmd, "change_shutter", n2c(shutter),
                                      IF state_is_open(state) THEN 1 ELSE 0)
                     s3 == [s2 EXCEPT !.pending = cmd]
                 IN IF block THEN _finish_moving(s3) ELSE s3

\* mode in ['fast', 'soft']
mode_recognized(mode) == mode.kind = "str" /\ mode.s \in {"fast", "soft"}

\* mutant of mode_cmd: the channel is sent zero-based
mode_cmd_zero_based(shutter, fast) == <<(IF fast THEN 220 ELSE 221), shutter>>

\* bytes([220, (shutter+1)]) if fast, bytes([221, (shutter+1)]) if soft
mode_cmd(shutter, fast) == <<(IF fast THEN 220 ELSE 221), shutter + 1>>

set_shutter_mode(s, mode, shutter, block) ==
    IF n2c_raises(shutter) THEN Raise(s, "ValueError:168")
    ELSE IF ~InList(n2c(shutter), s.shutters) THEN Raise(s, "AssertionError:132")
    ELSE IF ~mode_recognized(mode) THEN Raise(s, "AssertionError:133")
    ELSE LET s1 == finish_pending(s)
         IN IF s1.err # NoErr THEN s1
            ELSE LET cmd == mode_cmd(n2c(shutter), mode.s = "fast")
                     s2 == port_write(s1, cmd, "set_shutter_mode", n2c(shutter),
                                      IF mode.s = "fast" THEN 1 ELSE 0)
                     s3 == [s2 EXCEPT !.pending = cmd]
                 IN IF block THEN _finish_moving(s3) ELSE s3

---------------------------------------------------------------------------
(* Controller.__init__ *)

\* self.port.write(b'\xFD'): the device answers with its configuration frame
port_write_query(s, frame) ==
    [s EXCEPT
       !.rx = @ \o frame,
       !.trace = Append(@, [op |-> "write", bytes |-> <<QUERY>>, n |-> 1,
                            pend |-> s.pending, inflight |-> Len(s.unacked),
                            left |-> Len(s.rx) + Len(frame),
                            by |-> "__init__", ch |-> 0, arg |-> 0])]

\* the bytes self.port.readline() returns: up to the first LF, or, when the
\* read times out, what has arrived
port_readline_bytes(s) ==
    IF \E i \in DOMAIN s.rx : s.rx[i] = LF
    THEN SubSeq(s.rx, 1, CHOOSE i \in DOMAIN s.rx :
                            s.rx[i] = LF /\ \A j \in 1..(i - 1) : s.rx[j] # LF)
    ELSE s.rx

port_readline(s) ==
    LET got == port_readline_bytes(s)
    IN [s EXCEPT
          !.rx = SubSeq(@, Len(got) + 1, Len(@)),
          !.trace = Append(@, [op |-> "readline", bytes |-> got, n |-> Len(got),
                               pend |-> s.pending, inflight |-> Len(s.unacked),
                               left |-> Len(s.rx) - Len(got),
                               by |-> "__init__", ch |-> 0, arg |-> 0])]

\* mutant of config_length_err: only the 36-byte frame is rejected
config_length_err_only_36(configuration) ==
    IF Len(configuration) = 36 THEN "AssertionError:33" ELSE NoErr

\* lines 33-35: the two assertions on len(configuration)
config_length_err(configuration) ==
    IF Len(configuration) = 36 THEN "AssertionError:33"
    ELSE IF Len(configuration) # 31 THEN "AssertionError:35"
    ELSE NoErr

\* lines 38-39: the five fields of config_s
config_fields(config_s) ==
    [wa |-> Slice(config_s, 0, 5),   wb |-> Slice(config_s, 5, 10),
     wc |-> Slice(config_s, 10, 15), sa |-> Slice(config_s, 15, 20),
     sb |-> Slice(config_s, 20, 25)]

\* mutant of wheel_c_ok: only the tag of the wheel C field is compared
wheel_c_ok_tag_only(wc) == Slice(wc, 0, 3) = <<"W", "C", "-">>

\* line 40: wc == "WC-NC"
wheel_c_ok(wc) == wc = <<"W", "C", "-", "N", "C">>

\* line 45: w[3:] == '25' or w[3:] == 'NC'
wheel_type_ok(w) == SliceFrom(w, 3) = <<"2", "5">> \/ SliceFrom(w, 3) = <<"N", "C">>

\* mutant of shutter_type_ok: the sub-type 'NC' is recognized as well
shutter_type_ok_with_nc(sh) == SliceFrom(sh, 3) \in {<<"I", "Q">>, <<"V", "S">>, <<"N", "C">>}

\* line 48: s[3:] == 'IQ' or s[3:] == 'VS'
shutter_type_ok(sh) == SliceFrom(sh, 3) = <<"I", "Q">> \/ SliceFrom(sh, 3) = <<"V", "S">>

\* lines 40-49: the assertions on the fields, in the order they are made
config_fields_err(f) ==
    IF ~wheel_c_ok(f.wc) THEN "AssertionError:40"
    ELSE IF ~(Slice(f.wa, 0, 3) = <<"W", "A", "-">> /\ Slice(f.wb, 0, 3) = <<"W", "B", "-">>)
    THEN "AssertionError:42"
    ELSE IF ~(Slice(f.sa, 0, 3) = <<"S", "A", "-">> /\ Slice(f.sb, 0, 3) = <<"S", "B", "-">>)
    THEN "AssertionError:43"
    ELSE IF ~(wheel_type_ok(f.wa) /\ wheel_type_ok(f.wb)) THEN "AssertionError:45"
    ELSE IF ~(shutter_type_ok(f.sa) /\ shutter_type_ok(f.sb)) THEN "AssertionError:48"
    ELSE NoErr

\* lines 50-53
config_wheels(f) ==
    (IF f.wa = <<"W", "A", "-", "2", "5">> THEN <<0>> ELSE <<>>)
    \o (IF f.wb = <<"W", "B", "-", "2", "5">> THEN <<1>> ELSE <<>>)

\* mutant of config_shutters: a shutter of sub-type 'VS' is present too
config_shutters_with_vs(f) ==
    (IF f.sa \in {<<"S", "A", "-", "I", "Q">>, <<"S", "A", "-", "V", "S">>} THEN <<0>> ELSE <<>>)
    \o (IF f.sb \in {<<"S", "B", "-", "I", "Q">>, <<"S", "B", "-", "V", "S">>} THEN <<1>> ELSE <<>>)

\* lines 51-55
config_shutters(f) ==
    (IF f.sa = <<"S", "A", "-", "I", "Q">> THEN <<0>> ELSE <<>>)
    \o (IF f.sb = <<"S", "B", "-", "I", "Q">> THEN <<1>> ELSE <<>>)

\* lines 60-72: the verbose report raises when nothing is connected
report_err(verb, ws, shs) ==
    IF verb /\ Len(ws) = 0 /\ Len(shs) = 0 THEN "RuntimeError:71" ELSE NoErr

\* lines 75-76 and 181-182:  for wheel in self.wheels: self.move(0, wheel=wheel)
RECURSIVE park_wheels(_, _)
park_wheels(s, ws) ==
    IF ws = <<>> \/ s.err # NoErr THEN s
    ELSE park_wheels(move(s, 0, PyInt(Head(ws)), 6, TRUE), Tail(ws))

\* lines 77-79
RECURSIVE soften_and_close_shutters(_, _)
soften_and_close_shutters(s, shs) ==
    IF shs = <<>> \/ s.err # NoErr THEN s
    ELSE LET s1 == set_shutter_mode(s, PyStr("soft"), PyInt(Head(shs)), TRUE)
             s2 == IF s1.err # NoErr THEN s1
                   ELSE change_shutter(s1, PyStr("closed"), PyInt(Head(shs)), TRUE)
         IN soften_and_close_shutters(s2, Tail(shs))

\* lines 73-79
homing(s) ==
    LET s1 == [s EXCEPT !.pending = None,
                        !.targets = [i \in 1..Len(s.wheels) |-> 0]]
        s2 == park_wheels(s1, s1.wheels)
    IN soften_and_close_shutters(s2, s2.shutters)

__init__(s, frame, verb, port_ok) ==
    IF ~port_ok THEN Raise(s, "IOError:29")
    ELSE LET s1 == port_readline(port_write_query(s, frame))
             configuration == port_readline_bytes(port_write_query(s, frame))
         IN IF config_length_err(configuration) # NoErr
            THEN Raise(s1, config_length_err(configuration))
            ELSE IF decode_raises(SliceFrom(configuration, 5))
            THEN Raise(s1, "UnicodeDecodeError:36")
            ELSE LET f == config_fields(decode(SliceFrom(configuration, 5)))
                 IN IF config_fields_err(f) # NoErr
                    THEN Raise(s1, config_fields_err(f))
                    ELSE LET s2 == [s1 EXCEPT !.wheels = config_wheels(f),
                                              !.shutters = config_shutters(f)]
                         IN IF report_err(verb, s2.wheels, s2.shutters) # NoErr
                            THEN Raise(s2, report_err(verb, s2.wheels, s2.shutters))
                            ELSE homing(s2)

---------------------------------------------------------------------------
(* Controller.close *)

\* lines 183-184
RECURSIVE close_shutters(_, _)
close_shutters(s, shs) ==
    IF shs = <<>> \/ s.err # NoErr THEN s
    ELSE close_shutters(change_shutter(s, PyStr("closed"), PyInt(Head(shs)), TRUE),
                        Tail(shs))

\* mutant of close: the wheels are left where they are
close_keeps_wheels(s) ==
    LET s2 == close_shutters(s, s.shutters)
    IN [s2 EXCEPT !.closed = (s2.err = NoErr)]

\* the record after close(); field closed says whether self.port.close() ran
close(s) ==
    LET s1 == park_wheels(s, s.wheels)
        s2 == close_shutters(s1, s1.shutters)
    IN [s2 EXCEPT !.closed = (s2.err = NoErr)]

---------------------------------------------------------------------------
(* Inputs *)

\* the 5 bytes in front of the fields, which __init__ skips undecoded
FrameHeader == <<QUERY, 49, 48, 45, 51>>

WheelAFields == {Encode(<<"W", "A", "-", "2", "5">>), Encode(<<"W", "A", "-", "N", "C">>),
                 Encode(<<"W", "B", "-", "2", "5">>)}
WheelBFields == {Encode(<<"W", "B", "-", "2", "5">>), Encode(<<"W", "B", "-", "N", "C">>),
                 Encode(<<"W", "B", "-", "3", "2">>), <<87, 66, 45, 200, 53>>}
WheelCFields == {Encode(<<"W", "C", "-", "N", "C">>), Encode(<<"W", "C", "-", "2", "5">>)}
ShutterAFields == {Encode(<<"S", "A", "-", "I", "Q">>), Encode(<<"S", "A", "-", "V", "S">>),
                   Encode(<<"S", "A", "-", "N", "C">>)}
ShutterBFields == {Encode(<<"S", "B", "-", "I", "Q">>), Encode(<<"S", "B", "-", "V", "S">>),
                   Encode(<<"S", "A", "-", "I", "Q">>)}
\* what follows shutter B: the terminator (31 bytes), a shutter C field and
\* the terminator (36 bytes), or nothing before the read times out (30 bytes)
FrameTails == {<<LF>>, Encode(<<"S", "C", "-", "I", "Q">>) \o <<LF>>, <<>>}

ConfigFrames ==
    {FrameHeader \o wa \o wb \o wc \o sa \o sb \o tl :
        wa \in WheelAFields, wb \in WheelBFields, wc \in WheelCFields,
        sa \in ShutterAFields, sb \in ShutterBFields, tl \in FrameTails}

PositionInputs == {3, 10}
SpeedInputs == {6, 8}
ChannelInputs == {PyInt(0), PyInt(1), PyStr("A"), PyStr("B"), PyStr("C")}
StateInputs == {PyStr("open"), PyInt(0), PyStr("ajar")}
ModeInputs == {PyStr("fast"), PyStr("soft"), PyStr("slow")}

---------------------------------------------------------------------------
(* The state machine *)

\* the object, its port and the device as a call finds them
Self(plan) ==
    [pending |-> _pending_cmd, targets |-> wheel_target_positions,
     wheels |-> wheels, shutters |-> shutters, rx |-> port_rx,
     unacked |-> unacked, trace |-> <<>>, err |-> NoErr, closed |-> FALSE,
     dev |-> device, ok |-> plan.ok, mode |-> plan.mode]

\* the call's record, kept for the properties; healthy says that the device
\* echoed every command of the call
Call(op, position, channel, speed, value, block, frame, r) ==
    [op |-> op, position |-> position, channel |-> channel, speed |-> speed,
     value |-> value, block |-> block, frame |-> frame,
     healthy |-> (r.dev = "echo"), err |-> r.err, trace |-> r.trace]

\* the caller is between two calls
NoCall ==
    Call("none", 0, PyInt(0), 0, PyInt(0), TRUE, <<>>,
         [dev |-> "echo", err |-> NoErr, trace |-> <<>>])

Commit(r) ==
    /\ _pending_cmd' = r.pending
    /\ wheel_target_positions' = r.targets
    /\ wheels' = r.wheels
    /\ shutters' = r.shutters
    /\ port_rx' = r.rx
    /\ device' = r.dev
    /\ unacked' = r.unacked

Init ==
    /\ phase = "new"
    /\ wheels = <<>>
    /\ shutters = <<>>
    /\ _pending_cmd = None
    /\ wheel_target_positions = <<>>
    /\ port_rx = <<>>
    /\ device = "echo"
    /\ unacked = <<>>
    /\ last = NoCall

\* controller = Controller(which_port, verbose=verb)
Construct(frame, verb, port_ok, plan) ==
    /\ phase = "new"
    /\ LET r == __init__(Self(plan), frame, verb, port_ok)
       IN /\ Commit(r)
          /\ phase' = IF r.err = NoErr THEN "open" ELSE "failed"
          /\ last' = Call("__init__", 0, PyInt(0), 0, PyInt(IF verb THEN 1 ELSE 0),
                          TRUE, frame, r)

\* controller.move(position, wheel, speed, block)
Move(position, wheel, speed, block) ==
    /\ phase = "open"
    /\ last = NoCall
    /\ Len(port_rx) <= MaxRx
    /\ LET r == move(Self(NoPlan), position, wheel, speed, block)
       IN /\ Commit(r)
          /\ last' = Call("move", position, wheel, speed, PyInt(0), block, <<>>, r)
    /\ UNCHANGED phase

\* controller.change_shutter(state, shutter, block)
ChangeShutter(state, shutter, block) ==
    /\ phase = "open"
    /\ last = NoCall
    /\ Len(port_rx) <= MaxRx
    /\ LET r == change_shutter(Self(NoPlan), state, shutter, block)
       IN /\ Commit(r)
          /\ last' = Call("change_shutter", 0, shutter, 0, state, block, <<>>, r)
    /\ UNCHANGED phase

\* controller.set_shutter_mode(mode, shutter, block)
SetShutterMode(mode, shutter, block) ==
    /\ phase = "open"
    /\ last = NoCall
    /\ Len(port_rx) <= MaxRx
    /\ LET r == set_shutter_mode(Self(NoPlan), mode, shutter, block)
       IN /\ Commit(r)
          /\ last' = Call("set_shutter_mode", 0, shutter, 0, mode, block, <<>>, r)
    /\ UNCHANGED phase

\* controller._finish_moving()
FinishMoving ==
    /\ phase = "open"
    /\ last = NoCall
    /\ LET r == _finish_moving(Self(NoPlan))
       IN /\ Commit(r)
          /\ last' = Call("_finish_moving", 0, PyInt(0), 0, PyInt(0), TRUE, <<>>, r)
    /\ UNCHANGED phase

\* controller.close()
Close(plan) ==
    /\ phase = "open"
    /\ last = NoCall
    /\ Len(port_rx) <= MaxRx
    /\ LET r == close(Self(plan))
       IN /\ Commit(r)
          /\ phase' = IF r.closed THEN "closed" ELSE "open"
          /\ last' = Call("close", 0, PyInt(0), 0, PyInt(0), TRUE, <<>>, r)

\* the device starts to fault between two calls
DeviceFault(mode) ==
    /\ phase = "open"
    /\ last = NoCall
    /\ device = "echo"
    /\ device' = mode
    /\ UNCHANGED <<phase, wheels, shutters, _pending_cmd, wheel_target_positions,
                   port_rx, unacked, last>>

\* the caller has seen the outcome of its call and goes on
Proceed ==
    /\ phase = "open"
    /\ last # NoCall
    /\ last' = NoCall
    /\ UNCHANGED <<phase, wheels, shutters, _pending_cmd, wheel_target_positions,
                   port_rx, device, unacked>>

Next ==
    \/ /\ phase = "new"
       /\ \E frame \in ConfigFrames, verb \in BOOLEAN, plan \in DevicePlans :
             Construct(frame, verb, TRUE, plan)
    \/ /\ phase = "new"
       /\ \E verb \in BOOLEAN : Construct(<<>>, verb, FALSE, NoPlan)
    \/ /\ phase = "open" /\ last = NoCall
       /\ \E position \in PositionInputs, wheel \in ChannelInputs,
             speed \in SpeedInputs, block \in BOOLEAN :
             Move(position, wheel, speed, block)
    \/ /\ phase = "open" /\ last = NoCall
       /\ \E state \in StateInputs, shutter \in ChannelInputs, block \in BOOLEAN :
             ChangeShutter(state, shutter, block)
    \/ /\ phase = "open" /\ last = NoCall
       /\ \E mode \in ModeInputs, shutter \in ChannelInputs, block \in BOOLEAN :
             SetShutterMode(mode, shutter, block)
    \/ FinishMoving
    \/ /\ phase = "open" /\ last = NoCall
       /\ \E plan \in DevicePlans : Close(plan)
    \/ \E mode \in FaultModes : DeviceFault(mode)
    \/ Proceed

Spec == Init /\ [][Next]_vars

---------------------------------------------------------------------------
(* The command encodings on their own: every argument the assertions of
   move, change_shutter and set_shutter_mode let through is encoded and
   handed to the port of a session that has nothing pending. *)

\* the channels of names_to_channels, range(8) and range(10)
CodecChannels == {0, 1}
CodecSpeeds == 0..7
CodecPositions == 0..9

\* the call that wrote cmd, and nothing else, to the port
Encoded(op, position, channel, speed, value, cmd) ==
    Call(op, position, PyInt(channel), speed, PyInt(IF value THEN 1 ELSE 0), FALSE, <<>>,
         port_write(Self(NoPlan), cmd, op, channel, IF op = "move" THEN position
                                                    ELSE IF value THEN 1 ELSE 0))

CodecInit ==
    /\ phase = "codec"
    /\ wheels = <<>>
    /\ shutters = <<>>
    /\ _pending_cmd = None
    /\ wheel_target_positions = <<>>
    /\ port_rx = <<>>
    /\ device = "echo"
    /\ unacked = <<>>
    /\ last = NoCall

\* line 97 for one wheel, speed and position
EncodeMove(wheel, speed, position) ==
    /\ phase = "codec"
    /\ last' = Encoded("move", position, wheel, speed, FALSE,
                       move_cmd(wheel, speed, position))
    /\ UNCHANGED <<phase, wheels, shutters, _pending_cmd, wheel_target_positions,
                   port_rx, device, unacked>>

\* lines 117-120 for one shutter and state
EncodeShutter(shutter, open) ==
    /\ phase = "codec"
    /\ last' = Encoded("change_shutter", 0, shutter, 0, open, shutter_cmd(shutter, open))
    /\ UNCHANGED <<phase, wheels, shutters, _pending_cmd, wheel_target_positions,
                   port_rx, device, unacked>>

\* lines 139-142 for one shutter and mode
EncodeMode(shutter, fast) ==
    /\ phase = "codec"
    /\ last' = Encoded("set_shutter_mode", 0, shutter, 0, fast, mode_cmd(shutter, fast))
    /\ UNCHANGED <<phase, wheels, shutters, _pending_cmd, wheel_target_positions,
                   port_rx, device, unacked>>

CodecNext ==
    \/ \E wheel \in CodecChannels, speed \in CodecSpeeds, position \in CodecPositions :
          EncodeMove(wheel, speed, position)
    \/ \E shutter \in CodecChannels, open \in BOOLEAN : EncodeShutter(shutter, open)
    \/ \E shutter \in CodecChannels, fast \in BOOLEAN : EncodeMode(shutter, fast)

SpecCodec == CodecInit /\ [][CodecNext]_vars

---------------------------------------------------------------------------
(* Properties *)

PublicOps == {"move", "change_shutter", "set_shutter_mode"}

\* the channel argument ch names a channel of the presence list present
ArgChannelPresent(ch, present) ==
    \E k \in DOMAIN present :
        \/ (ch.kind = "int" /\ ch.i = present[k])
        \/ (ch.kind = "str" /\ ch.s = (IF present[k] = 0 THEN "A" ELSE "B"))

\* the call c was made with an invalid argument
InvalidCall(c) ==
    \/ /\ c.op = "move"
       /\ \/ ~ArgChannelPresent(c.channel, wheels)
          \/ c.position \notin 0..9
          \/ c.speed \notin 0..7
    \/ /\ c.op = "change_shutter"
       /\ \/ ~ArgChannelPresent(c.channel, shutters)
          \/ ~ \/ (c.value.kind = "str" /\ c.value.s \in {"open", "closed"})
               \/ (c.value.kind = "int" /\ c.value.i \in {0, 1})
    \/ /\ c.op = "set_shutter_mode"
       /\ \/ ~ArgChannelPresent(c.channel, shutters)
          \/ ~(c.value.kind = "str" /\ c.value.s \in {"fast", "soft"})

\* the I/O events of the call that are writes
WriteEvents(c) == {k \in DOMAIN c.trace : c.trace[k].op = "write"}

\* C1: a command is written to the transport only while no command is
\* pending and the echo of every earlier command has been consumed, so at
\* most one written command ever awaits its echo.
C1_SingleOutstanding ==
    /\ Len(unacked) <= 1
    /\ \A k \in WriteEvents(last) :
          last.trace[k].pend = None /\ last.trace[k].inflight = 0

\* C1 witness: a public operation found a command pending, read its echo
\* and then wrote its own command.
C1_Witness ==
    /\ last.op \in PublicOps
    /\ Len(last.trace) >= 2
    /\ last.trace[1].op = "read"
    /\ last.trace[1].pend # None
    /\ last.trace[1].bytes = last.trace[1].pend \o <<CR>>
    /\ last.trace[2].op = "write"

\* C2 as stated: with a command pending, _finish_moving reads
\* len(PendingCommand)+1 bytes and succeeds if and only if they are the
\* PendingCommand followed by 0x0D; on success the PendingCommand is cleared.
C2_Original ==
    (last.op = "_finish_moving" /\ last.trace # <<>>) =>
        /\ Len(last.trace) = 1
        /\ last.trace[1].op = "read"
        /\ last.trace[1].n = Len(last.trace[1].pend) + 1
        /\ (last.err = NoErr) <=> (last.trace[1].bytes = last.trace[1].pend \o <<CR>>)
        /\ (last.err = NoErr) => (_pending_cmd = None)

\* C2 amended: with a command pending, _finish_moving issues one read of
\* len(PendingCommand)+1 bytes; the PendingCommand is cleared if and only if
\* the bytes read are the PendingCommand followed by 0x0D; the call returns
\* normally if and only if, besides, no unread byte remains buffered; on
\* normal return the session is Idle.
C2_FinishMoving ==
    (last.op = "_finish_moving" /\ last.trace # <<>>) =>
        /\ Len(last.trace) = 1
        /\ last.trace[1].op = "read"
        /\ last.trace[1].pend # None
        /\ last.trace[1].n = Len(last.trace[1].pend) + 1
        /\ (_pending_cmd = None) <=> (last.trace[1].bytes = last.trace[1].pend \o <<CR>>)
        /\ (_pending_cmd # None) => (_pending_cmd = last.trace[1].pend)
        /\ (last.err = NoErr) <=>
              (last.trace[1].bytes = last.trace[1].pend \o <<CR>> /\ port_rx = <<>>)

\* C2 witness: an explicit _finish_moving consumed the echo of a pending
\* command and returned normally.
C2_Witness ==
    /\ last.op = "_finish_moving"
    /\ last.trace # <<>>
    /\ last.err = NoErr
    /\ _pending_cmd = None

\* C3: a public operation called with an invalid argument raises before any
\* transport I/O and leaves PendingCommand and WheelTargetPosition as they
\* were, whether or not a command is pending.
C3_InvalidBeforeIO ==
    [][(last'.op \in PublicOps /\ InvalidCall(last')) =>
          /\ last'.err # NoErr
          /\ last'.trace = <<>>
          /\ _pending_cmd' = _pending_cmd
          /\ wheel_target_positions' = wheel_target_positions]_vars

\* C4: a public operation called with an invalid argument fails and writes
\* no byte to the transport.
C4_InvalidNeverWrites ==
    (last.op \in PublicOps /\ InvalidCall(last)) =>
        /\ last.err # NoErr
        /\ WriteEvents(last) = {}

\* C4 witness: move addressed to wheel 'B' of a session in which wheel B was
\* not detected.
C4_Witness ==
    /\ last.op = "move"
    /\ last.channel = PyStr("B")
    /\ wheels = <<0>>
    /\ last.position \in 0..9
    /\ last.speed \in 0..7
    /\ last.err # NoErr

\* C5: a public operation that returns normally leaves the session Idle when
\* block is true, and AwaitingEcho with PendingCommand equal to the bytes
\* it wrote when block is false.
C5_BlockDecidesState ==
    (last.op \in PublicOps /\ last.err = NoErr) =>
        /\ WriteEvents(last) # {}
        /\ last.block => (_pending_cmd = None /\ unacked = <<>>)
        /\ ~last.block =>
              /\ last.trace[Len(last.trace)].op = "write"
              /\ _pending_cmd = last.trace[Len(last.trace)].bytes
              /\ unacked = <<_pending_cmd>>

\* C5 witness: a non-blocking move returned normally.
C5_Witness ==
    /\ last.op = "move"
    /\ ~last.block
    /\ last.err = NoErr

\* C6: whenever move has written its command byte for wheel c and position
\* p, WheelTargetPosition[c] is p, for every present wheel (A only, B only
\* or both) and both values of block.
C6_TargetFollowsMove ==
    \A k \in WriteEvents(last) :
        last.trace[k].by = "move" =>
            /\ last.trace[k].ch + 1 \in DOMAIN wheel_target_positions
            /\ wheel_target_positions[last.trace[k].ch + 1] = last.trace[k].arg

\* C7: for an accepted configuration with a present channel and a device
\* that echoes every command, initialization completes: the session is
\* open and Idle and every WheelTargetPosition is 0.
C7_HomingCompletes ==
    (/\ last.op = "__init__"
     /\ (wheels # <<>> \/ shutters # <<>>)
     /\ last.healthy) =>
        /\ phase = "open"
        /\ last.err = NoErr
        /\ _pending_cmd = None
        /\ Len(wheel_target_positions) = Len(wheels)
        /\ \A k \in DOMAIN wheel_target_positions : wheel_target_positions[k] = 0

\* the frame passes every check of the configuration parser
FrameAccepted(frame) ==
    /\ config_length_err(frame) = NoErr
    /\ ~decode_raises(SliceFrom(frame, 5))
    /\ config_fields_err(config_fields(decode(SliceFrom(frame, 5)))) = NoErr

\* C8: when resolution yields no wheel and no shutter, initialization fails,
\* whatever the verbose flag.
C8_EmptyConfigurationFails ==
    (/\ last.op = "__init__"
     /\ last.trace # <<>>
     /\ FrameAccepted(last.frame)
     /\ config_wheels(config_fields(decode(SliceFrom(last.frame, 5)))) = <<>>
     /\ config_shutters(config_fields(decode(SliceFrom(last.frame, 5)))) = <<>>) =>
        phase = "failed"

\* C9: a configuration response that is not 31 bytes long makes
\* initialization fail on the length check, before any field is parsed, and
\* the query 0xFD is the only thing the session ever writes.
C9_WrongLengthRejected ==
    (last.op = "__init__" /\ last.trace # <<>> /\ Len(last.frame) # 31) =>
        /\ phase = "failed"
        /\ last.err \in {"AssertionError:33", "AssertionError:35"}
        /\ Len(last.trace) = 2
        /\ WriteEvents(last) = {1}
        /\ last.trace[1].bytes = <<QUERY>>
        /\ wheels = <<>> /\ shutters = <<>>

\* C9 witness: a 36-byte response was received and rejected.
C9_Witness ==
    /\ last.op = "__init__"
    /\ Len(last.frame) = 36
    /\ last.trace # <<>>
    /\ last.trace[2].bytes = last.frame
    /\ phase = "failed"

\* the bytes of the wheel C field of a frame
FrameWheelC(frame) == SubSeq(frame, 16, 20)

\* C10: a 31-byte frame whose wheel C field is not 'WC-NC' makes
\* initialization fail whatever the other fields hold, and no homing
\* command is written.
C10_WheelCRejected ==
    (/\ last.op = "__init__"
     /\ last.trace # <<>>
     /\ Len(last.frame) = 31
     /\ FrameWheelC(last.frame) # <<87, 67, 45, 78, 67>>) =>
        /\ phase = "failed"
        /\ last.err # NoErr
        /\ WriteEvents(last) = {1}
        /\ last.trace[1].bytes = <<QUERY>>

\* C10 witness: a 31-byte frame with two supported wheels, two supported
\* shutters and a wheel C of 25 mm was rejected.
C10_Witness ==
    /\ last.op = "__init__"
    /\ Len(last.frame) = 31
    /\ FrameWheelC(last.frame) = <<87, 67, 45, 50, 53>>
    /\ SubSeq(last.frame, 6, 15) = <<87, 65, 45, 50, 53, 87, 66, 45, 50, 53>>
    /\ SubSeq(last.frame, 21, 30) = <<83, 65, 45, 73, 81, 83, 66, 45, 73, 81>>
    /\ phase = "failed"

\* the two bytes of the sub-type of field k of a frame (0 wheel A, 1 wheel B,
\* 2 wheel C, 3 shutter A, 4 shutter B)
FrameSubType(frame, k) == SubSeq(frame, 5 * k + 9, 5 * k + 10)

\* the frame has 31 ASCII bytes, the five tags in order and wheel C 'WC-NC'
FrameWellTagged(frame) ==
    /\ Len(frame) = 31
    /\ \A k \in DOMAIN frame : k > 5 => frame[k] < 128
    /\ SubSeq(frame, 6, 8) = <<87, 65, 45>>
    /\ SubSeq(frame, 11, 13) = <<87, 66, 45>>
    /\ FrameWheelC(frame) = <<87, 67, 45, 78, 67>>
    /\ SubSeq(frame, 21, 23) = <<83, 65, 45>>
    /\ SubSeq(frame, 26, 28) = <<83, 66, 45>>

\* the sub-types '25', 'NC', 'IQ' and 'VS' as bytes
Sub25 == <<50, 53>>
SubNC == <<78, 67>>
SubIQ == <<73, 81>>
SubVS == <<86, 83>>

\* C11 as stated: a well-tagged frame whose wheel sub-types are '25' or 'NC'
\* and whose shutter sub-types are 'IQ', 'VS' or 'NC' passes the sub-type
\* checks, and any other sub-type fails them.
C11_Original ==
    (/\ last.op = "__init__"
     /\ last.trace # <<>>
     /\ FrameWellTagged(last.frame)) =>
        (last.err \in {"AssertionError:45", "AssertionError:48"} <=>
            ~ /\ \A k \in {0, 1} : FrameSubType(last.frame, k) \in {Sub25, SubNC}
              /\ \A k \in {3, 4} : FrameSubType(last.frame, k) \in {SubIQ, SubVS, SubNC})

\* C11: in a well-tagged frame a wheel sub-type other than '25' and 'NC'
\* fails the wheel check; with both wheels recognized, a shutter sub-type
\* other than 'IQ' and 'VS' ('NC' included) fails the shutter check; every
\* other well-tagged frame passes both checks.
C11_SubTypesRecognized ==
    (/\ last.op = "__init__"
     /\ last.trace # <<>>
     /\ FrameWellTagged(last.frame)) =>
        LET wheels_ok == \A k \in {0, 1} : FrameSubType(last.frame, k) \in {Sub25, SubNC}
            shutters_ok == \A k \in {3, 4} : FrameSubType(last.frame, k) \in {SubIQ, SubVS}
        IN /\ last.err = "AssertionError:45" <=> ~wheels_ok
           /\ last.err = "AssertionError:48" <=> (wheels_ok /\ ~shutters_ok)
           /\ last.err \notin {"AssertionError:33", "AssertionError:35", "AssertionError:40",
                            "AssertionError:42", "AssertionError:43",
                               "UnicodeDecodeError:36"}

\* C11 witness: a frame with wheel A of 25 mm and shutter A of sub-type
\* 'VS' passed the checks and the session opened; 'SA-NC' is the frame the
\* original statement fails on.
C11_Witness ==
    /\ last.op = "__init__"
    /\ FrameWellTagged(last.frame)
    /\ FrameSubType(last.frame, 0) = Sub25
    /\ FrameSubType(last.frame, 3) = SubVS
    /\ FrameSubType(last.frame, 4) = SubIQ
    /\ phase = "open"

\* C12 as stated: for an accepted frame a wheel is present iff its sub-type
\* is '25' and a shutter is present iff its sub-type is 'IQ' or 'VS'.
C12_Original ==
    (/\ last.op = "__init__"
     /\ last.trace # <<>>
     /\ FrameAccepted(last.frame)) =>
        \A c \in {0, 1} :
            /\ (\E k \in DOMAIN wheels : wheels[k] = c) <=>
                   FrameSubType(last.frame, c) = Sub25
            /\ (\E k \in DOMAIN shutters : shutters[k] = c) <=>
                   FrameSubType(last.frame, c + 3) \in {SubIQ, SubVS}

\* C12: for an accepted frame a wheel channel is in wheels iff its sub-type
\* is '25' and a shutter channel is in shutters iff its sub-type is 'IQ'; a
\* channel reported 'NC' or 'VS' is in no presence set.
C12_PresenceFollowsFrame ==
    (/\ last.op = "__init__"
     /\ last.trace # <<>>
     /\ FrameAccepted(last.frame)) =>
        \A c \in {0, 1} :
            /\ (\E k \in DOMAIN wheels : wheels[k] = c) <=>
                   FrameSubType(last.frame, c) = Sub25
            /\ (\E k \in DOMAIN shutters : shutters[k] = c) <=>
                   FrameSubType(last.frame, c + 3) = SubIQ

\* C12 witness: an accepted frame reporting wheel A absent, wheel B absent,
\* shutter A of sub-type 'VS' and shutter B of sub-type 'IQ' left shutter B
\* alone in the presence sets.
C12_Witness ==
    /\ last.op = "__init__"
    /\ FrameAccepted(last.frame)
    /\ FrameSubType(last.frame, 0) = SubNC
    /\ FrameSubType(last.frame, 1) = SubNC
    /\ FrameSubType(last.frame, 3) = SubVS
    /\ FrameSubType(last.frame, 4) = SubIQ
    /\ wheels = <<>>
    /\ shutters = <<1>>
    /\ phase = "open"

\* the command byte written by an encoding of the codec
EncodedByte == last.trace[1].bytes[1]

\* the echo of cmd arrives whole and alone at a session awaiting it
EchoCompletes(cmd, echo) ==
    LET s == [Self(NoPlan) EXCEPT !.pending = cmd, !.rx = echo, !.unacked = <<cmd>>]
    IN _finish_moving(s).err = NoErr /\ _finish_moving(s).pending = None

\* C13: for every channel, speed 0..7 and position 0..9 the move command is
\* one byte in 0..255 whose bit 7 is the channel, bits 6..4 the speed and
\* bits 3..0 the position, so distinct triples give distinct bytes.
C13_MoveByteDecodes ==
    (phase = "codec" /\ last.op = "move") =>
        /\ Len(last.trace[1].bytes) = 1
        /\ EncodedByte \in 0..255
        /\ EncodedByte \div 128 = last.channel.i
        /\ (EncodedByte \div 16) % 8 = last.speed
        /\ EncodedByte % 16 = last.position
        /\ \A w \in CodecChannels, sp \in CodecSpeeds, p \in CodecPositions :
              move_cmd(w, sp, p) = last.trace[1].bytes =>
                  (w = last.channel.i /\ sp = last.speed /\ p = last.position)

\* C13 witness: wheel 1 at speed 7 to position 9 was encoded as byte 249.
C13_Witness ==
    /\ phase = "codec"
    /\ last.op = "move"
    /\ last.channel.i = 1 /\ last.speed = 7 /\ last.position = 9
    /\ last.trace[1].bytes = <<249>>

\* C14: change_shutter's command is the single byte
\* 128 + 32 + 8 + (channel << 4) + (2 if open else 4); channel and state are
\* recovered from it, the four bytes are 170, 172, 186 and 188, and the echo
\* that completes it is the byte followed by 0x0D.
C14_ShutterByteDecodes ==
    (phase = "codec" /\ last.op = "change_shutter") =>
        /\ Len(last.trace[1].bytes) = 1
        /\ EncodedByte = 128 + 32 + 8 + last.channel.i * 16
                             + (IF last.value.i = 1 THEN 2 ELSE 4)
        /\ EncodedByte \in {170, 172, 186, 188}
        /\ (EncodedByte \div 16) % 2 = last.channel.i
        /\ (EncodedByte % 8 = 2) <=> (last.value.i = 1)
        /\ \A sh \in CodecChannels, open \in BOOLEAN :
              shutter_cmd(sh, open) = last.trace[1].bytes =>
                  (sh = last.channel.i /\ open = (last.value.i = 1))
        /\ EchoCompletes(last.trace[1].bytes, <<EncodedByte, 13>>)
        /\ \A b \in {0, 10, EncodedByte} :
              ~EchoCompletes(last.trace[1].bytes, <<EncodedByte, b>>)

\* C14 witness: shutter B closed was encoded as byte 188.
C14_Witness ==
    /\ phase = "codec"
    /\ last.op = "change_shutter"
    /\ last.channel.i = 1 /\ last.value.i = 0
    /\ last.trace[1].bytes = <<188>>

\* C20: no move byte equals a shutter-state byte (170, 172, 186, 188), a
\* shutter-mode opcode (220, 221), the query 0xFD or the terminator 0x0D.
C20_FamiliesDisjoint ==
    (phase = "codec" /\ last.op = "move") =>
        /\ EncodedByte \notin {170, 172, 186, 188, 220, 221, 253, 13}
        /\ \A sh \in CodecChannels, v \in BOOLEAN :
              /\ EncodedByte # shutter_cmd(sh, v)[1]
              /\ EncodedByte # mode_cmd(sh, v)[1]
        /\ EncodedByte \notin {QUERY, CR}

\* C20 witness: the move byte nearest to a shutter-state byte, 169 for
\* wheel 1 at speed 2 to position 9, was encoded.
C20_Witness ==
    /\ phase = "codec"
    /\ last.op = "move"
    /\ last.trace[1].bytes = <<169>>
    /\ shutter_cmd(0, TRUE) = <<170>>

\* the channel number a call's channel argument stands for
ChannelOf(ch) == IF ch.kind = "int" THEN ch.i ELSE IF ch.s = "A" THEN 0 ELSE 1

\* the read event e did not complete the pending command: the bytes are not
\* its echo, or bytes were left in the buffer behind them
FailedCompletion(e) == e.bytes # e.pend \o <<CR>> \/ e.left > 0

\* C15: a valid set_shutter_mode whose forced completion did not fail
\* writes, once, the two bytes [220 if fast else 221, channel + 1]; the
\* echo read for them is a read of three bytes, and it succeeds on exactly
\* those two bytes followed by 0x0D.
C15_ModeCommand ==
    /\ \A k \in DOMAIN last.trace :
          (last.trace[k].op = "read" /\ Len(last.trace[k].pend) = 2) =>
              last.trace[k].n = 3
    /\ (/\ last.op = "set_shutter_mode"
        /\ ~InvalidCall(last)
        /\ ~(last.trace # <<>> /\ last.trace[1].op = "read"
                              /\ FailedCompletion(last.trace[1]))) =>
           \E k \in DOMAIN last.trace :
              LET cmd == <<(IF last.value.s = "fast" THEN 220 ELSE 221),
                           ChannelOf(last.channel) + 1>>
              IN /\ WriteEvents(last) = {k}
                 /\ last.trace[k].bytes = cmd
                 /\ last.trace[k].n = 2
                 /\ IF last.block
                    THEN /\ Len(last.trace) = k + 1
                         /\ last.trace[k + 1].op = "read"
                         /\ last.trace[k + 1].pend = cmd
                         /\ last.trace[k + 1].n = 3
                         /\ last.err = NoErr <=> ~FailedCompletion(last.trace[k + 1])
                         /\ last.err = NoErr => last.trace[k + 1].bytes = cmd \o <<13>>
                    ELSE /\ Len(last.trace) = k
                         /\ _pending_cmd = cmd
                         /\ last.err = NoErr

\* C15 witness: set_shutter_mode('fast', 'A') wrote [220, 1] and read the
\* three bytes [220, 1, 0x0D].
C15_Witness ==
    /\ last.op = "set_shutter_mode"
    /\ last.channel = PyStr("A")
    /\ last.value = PyStr("fast")
    /\ last.err = NoErr
    /\ Len(last.trace) = 2
    /\ last.trace[1].op = "write" /\ last.trace[1].bytes = <<220, 1>>
    /\ last.trace[2].op = "read" /\ last.trace[2].n = 3
    /\ last.trace[2].bytes = <<220, 1, 13>>

\* C16: close() on a session whose device echoes every command first
\* consumes the echo of a pending command, then commands every present wheel
\* to position 0 and every present shutter closed, each command written with
\* nothing pending and followed by the read of its echo; the port is
\* released after the last echo, with the session Idle and every
\* WheelTargetPosition 0.
C16_CloseParksAndReleases ==
    (last.op = "close" /\ last.healthy) =>
        LET n == Len(wheels) + Len(shutters)
            off == IF last.trace # <<>> /\ last.trace[1].op = "read" THEN 1 ELSE 0
        IN /\ phase = "closed"
           /\ last.err = NoErr
           /\ _pending_cmd = None
           /\ unacked = <<>>
           /\ port_rx = <<>>
           /\ \A k \in DOMAIN wheel_target_positions : wheel_target_positions[k] = 0
           /\ Len(wheel_target_positions) = Len(wheels)
           /\ Len(last.trace) = off + 2 * n
           /\ off = 1 => (last.trace[1].pend # None /\ ~FailedCompletion(last.trace[1]))
           /\ \A j \in 1..n :
                 LET w == last.trace[off + 2 * j - 1]
                     r == last.trace[off + 2 * j]
                 IN /\ w.op = "write"
                    /\ w.pend = None /\ w.inflight = 0
                    /\ w.arg = 0
                    /\ IF j <= Len(wheels)
                       THEN w.by = "move" /\ w.ch = wheels[j]
                            /\ w.bytes[1] % 16 = 0 /\ w.bytes[1] \div 128 = w.ch
                       ELSE w.by = "change_shutter" /\ w.ch = shutters[j - Len(wheels)]
                            /\ w.bytes = <<172 + 16 * w.ch>>
                    /\ r.op = "read"
                    /\ r.pend = w.bytes
                    /\ ~FailedCompletion(r)

\* C16 witness: close() found a command pending on a session with two
\* wheels, one of them away from position 0, and a shutter, consumed its
\* echo, parked and closed everything and released the port.
C16_Witness ==
    /\ last.op = "close"
    /\ last.healthy
    /\ phase = "closed"
    /\ wheels = <<0, 1>>
    /\ shutters # <<>>
    /\ last.trace[1].op = "read"
    /\ last.trace[1].pend \in {<<99>>, <<227>>}
    /\ Len(last.trace) = 1 + 2 * (Len(wheels) + Len(shutters))

\* C17: _finish_moving called with no PendingCommand does nothing: no read,
\* no write, no error, and the PendingCommand, every WheelTargetPosition and
\* the port's buffer are as they were.
C17_FinishIdleNoOp ==
    [][(/\ last.op = "none"
        /\ last'.op = "_finish_moving"
        /\ _pending_cmd = None) =>
           /\ last'.trace = <<>>
           /\ last'.err = NoErr
           /\ UNCHANGED <<phase, wheels, shutters, _pending_cmd, wheel_target_positions,
                          port_rx, device, unacked>>]_vars

\* C17 witness: _finish_moving ran on an Idle session with a wheel away from
\* position 0 and made no I/O.
C17_Witness ==
    /\ last.op = "_finish_moving"
    /\ last.trace = <<>>
    /\ last.err = NoErr
    /\ _pending_cmd = None
    /\ phase = "open"
    /\ \E k \in DOMAIN wheel_target_positions : wheel_target_positions[k] = 3

\* C18: a read that fails to complete the pending command (other bytes,
\* fewer bytes, or bytes left behind a valid echo) is the last I/O of its
\* call and the call raises: the read is not repeated and a public
\* operation that forced the completion writes nothing.
C18_FailedCompletionRaises ==
    \A k \in DOMAIN last.trace :
        (last.trace[k].op = "read" /\ FailedCompletion(last.trace[k])) =>
            /\ k = Len(last.trace)
            /\ last.err \in {"IOError:156", "AssertionError:158"}
            /\ (last.op \in PublicOps /\ k = 1) => WriteEvents(last) = {}

\* C18 witness: a valid change_shutter forced the completion of a pending
\* command, read its echo with a byte left behind it, raised and wrote
\* nothing.
C18_Witness ==
    /\ last.op = "change_shutter"
    /\ ~InvalidCall(last)
    /\ Len(last.trace) = 1
    /\ last.trace[1].op = "read"
    /\ last.trace[1].bytes = last.trace[1].pend \o <<CR>>
    /\ last.trace[1].left > 0
    /\ last.err = "AssertionError:158"

\* C19: change_shutter and set_shutter_mode leave every WheelTargetPosition
\* as it was, and no operation on an open session changes wheels or
\* shutters.
C19_ShutterOpsKeepTargets ==
    [][/\ (last.op = "none" /\ last'.op \in {"change_shutter", "set_shutter_mode"}) =>
              wheel_target_positions' = wheel_target_positions
       /\ phase \in {"open", "closed"} => (wheels' = wheels /\ shutters' = shutters)]_vars

\* C19 witness: change_shutter wrote its command on a session whose wheel A
\* stands at position 3.
C19_Witness ==
    /\ last.op = "change_shutter"
    /\ last.err = NoErr
    /\ WriteEvents(last) # {}
    /\ ChannelOf(last.channel) = 0
    /\ wheel_target_positions # <<>>
    /\ wheel_target_positions[1] = 3

====
